---------------------------- MODULE Spec2Model ----------------------------
(***************************************************************************)
(* A model of the healthcare Monte Carlo pipeline:                         *)
(*   src/src/data_generator.py        HealthcareDataGenerator              *)
(*   src/src/monte_carlo_simulator.py MonteCarloHealthcareSimulator        *)
(*                                                                         *)
(* Numbers.  Python floats are modelled in fixed point: every float-valued *)
(* quantity is an integer number of hundredths ("centi"), 28.35 is 2835.   *)
(* Products and quotients are taken exactly and then floored to the grid.  *)
(*                                                                         *)
(* Randomness.  numpy's global generator is the variable rng: a seed and   *)
(* the number of variates drawn since np.random.seed.  The variate at a    *)
(* position of the stream of a seed is a fixed function Stream(seed, pos)  *)
(* with RngLevels equally likely levels u in 0..RngLevels-1; each          *)
(* distribution maps u/RngLevels to a value of its support.                *)
(***************************************************************************)
EXTENDS Integers, Sequences, FiniteSets, TLC

(***************************************************************************)
(* Bounds of the model.                                                    *)
(***************************************************************************)
\* seeds are 0..MaxSeed
MaxSeed == 15
\* generate_patient_cohort is called with n_patients in 0..MaxPatients
MaxPatients == 4
\* a table handed to amplify_edge_cases has at most MaxRows rows
MaxRows == 5
\* an operation runs only if it leaves at most MaxDraws variates drawn since
\* the last np.random.seed
MaxDraws == 68
\* number of levels of one variate of the random stream
RngLevels == 9
\* the normal variates span -ZMax..ZMax hundredths of a standard deviation
ZMax == 600

\* simulators are constructed with a seed in 0..MaxSimSeed
MaxSimSeed == 2
\* simulations run num_simulations in 1..MaxTrials trials
MaxTrials == 2
\* a simulator operation runs only if it leaves at most MaxSimDraws variates
\* drawn since the last np.random.seed
MaxSimDraws == 18

\* a table handed to simulate_cohort has at most MaxRoster rows
MaxRoster == 3

\* a summaries table handed to the analyzer has 1..MaxSummaries rows
MaxSummaries == 3

\* amplification_factor, in percent (0.3 is 30)
FactorChoices == {0, 30, 50, 100}

(***************************************************************************)
(* State.                                                                  *)
(***************************************************************************)
VARIABLES
    rng,                  \* numpy's global generator: [seed, pos]
    cohort,               \* the table the last generator call returned
    gen_status,           \* "none" | "returned" | "ValueError"
    gen_call,             \* the last generator call: operation and arguments
    base_df,              \* the table before amplification (base_df; df)
    input_df,             \* the table handed to amplify_edge_cases, as it
                          \* is after the call
    disease_probs,        \* per patient of the last generate_base_population:
                          \* the risk score and the table its disease is
                          \* drawn from
    synthetic_high_risk,  \* amplify_edge_cases' list of high-risk copies
    synthetic_low_risk,   \* amplify_edge_cases' list of low-risk copies
    fresh,                \* no variate drawn, no reseeding since the last
                          \* MonteCarloHealthcareSimulator(seed)
    sim_seed,             \* the seed the simulator was constructed with
    patient,              \* the caller's patient object after the last call
    arrays,               \* the per-trial arrays of the last simulate call
    last,                 \* the last simulator call and what it returned
    rel,                  \* how the last call relates to the call before it
    sim_status,           \* how the last simulator call ended: "none" |
                          \* "returned" | the name of the exception raised
    results_df,           \* the caller's summaries table: columns and rows
    ana_call,             \* the last analyzer call and the table as it was
                          \* when the call was made
    report,               \* what the last analyzer call returned
    ana_status            \* how it ended: "none" | "returned" | exception

gen_vars == <<cohort, gen_status, gen_call, base_df, input_df, disease_probs,
              synthetic_high_risk, synthetic_low_risk>>

sim_vars == <<fresh, sim_seed, patient, arrays, last, rel, sim_status>>

ana_vars == <<results_df, ana_call, report, ana_status>>

vars == <<rng, gen_vars, sim_vars, ana_vars>>

NoCall == [op |-> "none", n |-> 0, amplify |-> FALSE, factor |-> 0]

\* no generator call was made
GenIdle ==
    /\ cohort = <<>>
    /\ gen_status = "none"
    /\ gen_call = NoCall
    /\ base_df = <<>>
    /\ input_df = <<>>
    /\ disease_probs = <<>>
    /\ synthetic_high_risk = <<>>
    /\ synthetic_low_risk = <<>>

NoTable == [columns |-> {}, rows |-> <<>>]

\* no analyzer call was made and no summaries table exists
AnaIdle ==
    /\ results_df = NoTable
    /\ ana_call = [op |-> "none"]
    /\ report = <<>>
    /\ ana_status = "none"

(***************************************************************************)
(* Arithmetic helpers.                                                     *)
(***************************************************************************)
Min(a, b) == IF a < b THEN a ELSE b

Max(a, b) == IF a > b THEN a ELSE b

\* np.clip(x, lo, hi)
Clip(x, lo, hi) == Min(Max(x, lo), hi)

\* np.round(x, d): x in hundredths, rounded half to even to a multiple of
\* step hundredths (step 10: one decimal; 100: none; 1: two decimals)
RoundTo(x, step) ==
    LET q == x \div step
        r == x % step
    IN  IF 2 * r < step THEN q * step
        ELSE IF 2 * r > step THEN (q + 1) * step
        ELSE IF q % 2 = 0 THEN q * step ELSE (q + 1) * step

\* ndarray.astype(int) of a non-negative value in hundredths: truncation
AsInt(x) == x \div 100

(***************************************************************************)
(* The random stream (np.random).                                          *)
(***************************************************************************)
Seeds == 0..MaxSeed

\* the variate at position pos of the stream np.random.seed(seed) starts
Stream(seed, pos) ==
    ((seed + 1) * 7919 + (pos + 1) * 104729
        + (seed + 1) * (pos + 1) * (pos + 3) * 31) % RngLevels

\* np.random.seed(seed)
SeedRng(seed) == [seed |-> seed, pos |-> 0]

\* the k-th variate after generator state g (k = 0 is the next one)
U(g, k) == Stream(g.seed, g.pos + k)

\* generator state g after n variates were drawn
Advance(g, n) == [g EXCEPT !.pos = g.pos + n]

\* standard normal quantile of level u, in hundredths of a deviation
Zc(u) == ((2 * u - (RngLevels - 1)) * ZMax) \div (RngLevels - 1)

\* np.random.normal(mu, sigma) in hundredths (mu_c, sigma_c in hundredths)
Normal(mu_c, sigma_c, u) == mu_c + (sigma_c * Zc(u)) \div 100

\* np.random.gamma(shape=8, scale=7) in hundredths: mean 56, deviation 19.8,
\* always positive
Gamma87(u) == Max(1, 5600 + (1980 * Zc(u)) \div 100)

\* np.random.randint(low, high): an integer of low..high-1
RandInt(low, high, u) == low + (u * (high - low)) \div RngLevels

\* np.random.choice(values, p=p): p in percent; the first index whose
\* cumulative probability exceeds u / RngLevels
RECURSIVE ChoiceIndex(_, _, _, _)
ChoiceIndex(p, u, i, acc) ==
    IF i >= Len(p) \/ u * 100 < (acc + p[i]) * RngLevels THEN i
    ELSE ChoiceIndex(p, u, i + 1, acc + p[i])

ChoiceP(values, p, u) == values[ChoiceIndex(p, u, 1, 0)]

\* np.random.choice(values): uniform
ChoiceUniform(values, u) == values[RandInt(0, Len(values), u) + 1]

(***************************************************************************)
(* HealthcareDataGenerator.                                                *)
(***************************************************************************)
diseases == <<"Type 2 Diabetes", "Hypertension", "Both">>

treatments == <<"Standard Care", "Intensive Therapy", "Experimental Treatment">>

Digit(d) == <<"0", "1", "2", "3", "4", "5", "6", "7", "8", "9">>[d + 1]

\* str(i) for i >= 0, as the sequence of its characters
RECURSIVE Str(_)
Str(i) == IF i < 10 THEN <<Digit(i)>> ELSE Str(i \div 10) \o <<Digit(i % 10)>>

\* s.zfill(width): zeros on the left up to width, never a cut
RECURSIVE ZFill(_, _)
ZFill(s, width) == IF Len(s) >= width THEN s ELSE ZFill(<<"0">> \o s, width)

\* mutant: the identifiers are numbered from 0 (range(n))
BasePatientIdFromZero(i) == <<"P", "T">> \o ZFill(Str(i - 1), 6)

\* f'PT{str(i).zfill(6)}'
BasePatientId(i) == <<"P", "T">> \o ZFill(Str(i), 6)

\* f'SYN{np.random.randint(100000, 999999)}'
SyntheticPatientId(u) == <<"S", "Y", "N">> \o Str(RandInt(100000, 999999, u))

\* ages: gamma + 30, clipped to [30, 85], truncated to int (years)
AgeOf(u) == AsInt(Clip(Gamma87(u) + 3000, 3000, 8500))

\* bmi (hundredths): normal(28, 5) + (age - 50) * 0.05, clipped to [18, 50]
BmiOf(age, u) == Clip(Normal(2800, 500, u) + (age - 50) * 5, 1800, 5000)

SystolicOf(bmi, age, u) ==
    Clip(11000 + ((bmi - 2500) * 12) \div 10 + (age - 50) * 30
            + Normal(0, 800, u), 9000, 18000)

DiastolicOf(bmi, age, u) ==
    Clip(7000 + ((bmi - 2500) * 6) \div 10 + (age - 50) * 15
            + Normal(0, 500, u), 6000, 12000)

GlucoseOf(bmi, u) ==
    Clip(9500 + ((bmi - 2500) * 15) \div 10 + Normal(0, 1200, u), 7000, 18000)

Hba1cOf(glucose, u) ==
    Clip(550 + ((glucose - 10000) * 15) \div 1000 + Normal(0, 30, u), 450, 1000)

\* disease_risk: the number of indicators that hold
DiseaseRisk(bmi, systolic, glucose) ==
    (IF bmi > 3000 THEN 1 ELSE 0) + (IF systolic > 14000 THEN 1 ELSE 0)
        + (IF glucose > 12600 THEN 1 ELSE 0)

\* disease_probs = clip(risk / 6, 0.1, 0.8), in sixtieths
DiseaseProb60(risk) == Clip(risk * 10, 6, 48)

\* the probability table (percent) the branch on prob selects
DiseaseTable(prob60) ==
    IF prob60 > 36 THEN <<30, 30, 40>>
    ELSE IF prob60 > 18 THEN <<40, 40, 20>>
    ELSE <<50, 45, 5>>

\* the weighted sum of the four sub-scores, times 15840 (hundredths)
SeverityNumerator(bmi, systolic, glucose, hba1c) ==
    (bmi - 1800) * 25 * 495 + (systolic - 9000) * 25 * 176
        + (glucose - 7000) * 25 * 144 + (hba1c - 450) * 25 * 2880

\* severity, clipped to [0, 100], times 15840 (hundredths)
SeverityOf(bmi, systolic, glucose, hba1c) ==
    Clip(SeverityNumerator(bmi, systolic, glucose, hba1c), 0, 158400000)

\* np.round(severity, 1), in hundredths
RoundSeverity(sev15840) == RoundTo(sev15840, 158400) \div 15840

\* row i of generate_base_population(n), drawn from generator state g: the
\* columns are drawn one after the other, n variates each
BaseRow(g, n, i) ==
    LET age == AgeOf(U(g, i - 1))
        gender == ChoiceP(<<"Male", "Female">>, <<48, 52>>, U(g, n + i - 1))
        bmi == BmiOf(age, U(g, 2 * n + i - 1))
        systolic == SystolicOf(bmi, age, U(g, 3 * n + i - 1))
        diastolic == DiastolicOf(bmi, age, U(g, 4 * n + i - 1))
        glucose == GlucoseOf(bmi, U(g, 5 * n + i - 1))
        hba1c == Hba1cOf(glucose, U(g, 6 * n + i - 1))
        table == DiseaseTable(DiseaseProb60(DiseaseRisk(bmi, systolic, glucose)))
    IN  [patient_id |-> BasePatientId(i),
         age |-> age,
         gender |-> gender,
         bmi |-> RoundTo(bmi, 10),
         baseline_systolic |-> RoundTo(systolic, 100),
         baseline_diastolic |-> RoundTo(diastolic, 100),
         baseline_glucose |-> RoundTo(glucose, 100),
         baseline_hba1c |-> RoundTo(hba1c, 1),
         disease |-> ChoiceP(diseases, table, U(g, 7 * n + i - 1)),
         treatment |-> ChoiceUniform(treatments, U(g, 8 * n + i - 1)),
         baseline_severity |->
             RoundSeverity(SeverityOf(bmi, systolic, glucose, hba1c))]

\* disease_risk[i] and the table the branch on disease_probs[i] selects for
\* patient i of generate_base_population(n), drawn from generator state g
DiseaseChoice(g, n, i) ==
    LET age == AgeOf(U(g, i - 1))
        bmi == BmiOf(age, U(g, 2 * n + i - 1))
        systolic == SystolicOf(bmi, age, U(g, 3 * n + i - 1))
        glucose == GlucoseOf(bmi, U(g, 5 * n + i - 1))
        disease_risk == DiseaseRisk(bmi, systolic, glucose)
    IN  [disease_risk |-> disease_risk,
         p |-> DiseaseTable(DiseaseProb60(disease_risk))]

\* generate_base_population(n): the table and the generator state after it
GenerateBasePopulation(g, n) ==
    [df |-> [i \in 1..n |-> BaseRow(g, n, i)],
     disease_probs |-> [i \in 1..n |-> DiseaseChoice(g, n, i)],
     rng |-> Advance(g, 9 * n)]

\* ten times Series.quantile(q10 / 10) of a non-empty column (linear
\* interpolation between the two nearest order statistics)
Quantile10(column, q10) ==
    LET s == SortSeq(column, LAMBDA a, b : a < b)
        h == (Len(s) - 1) * q10
        lo == h \div 10 + 1
        hi == Min(lo + 1, Len(s))
    IN  10 * s[lo] + (h % 10) * (s[hi] - s[lo])

SeverityColumn(df) == [i \in 1..Len(df) |-> df[i].baseline_severity]

\* df[df['baseline_severity'] > df['baseline_severity'].quantile(0.9)]
\* (the quantile of an empty column is NaN and selects no row)
HighRiskSamples(df) ==
    IF Len(df) = 0 THEN <<>>
    ELSE CHOOSE pool \in
            {SelectSeq(df, LAMBDA r : 10 * r.baseline_severity > q) :
                q \in {Quantile10(SeverityColumn(df), 9)}} : TRUE

\* df[df['baseline_severity'] < df['baseline_severity'].quantile(0.1)]
LowRiskSamples(df) ==
    IF Len(df) = 0 THEN <<>>
    ELSE CHOOSE pool \in
            {SelectSeq(df, LAMBDA r : 10 * r.baseline_severity < q) :
                q \in {Quantile10(SeverityColumn(df), 1)}} : TRUE

\* pool.sample(1).iloc[0] of a non-empty pool
Sample1(pool, u) == pool[RandInt(0, Len(pool), u) + 1]

\* the standard deviations (hundredths) of the noise added to bmi, systolic,
\* diastolic, glucose and HbA1c of a high-risk and of a low-risk copy
HighRiskNoise == <<200, 500, 300, 800, 20>>

LowRiskNoise == <<150, 400, 200, 500, 15>>

\* mutant: the copy's severity is perturbed like its other attributes
SyntheticRowPerturbSeverity(pool, noise, g) ==
    LET base_patient == Sample1(pool, U(g, 0))
    IN  [base_patient EXCEPT
            !.patient_id = SyntheticPatientId(U(g, 1)),
            !.age = @ + RandInt(-5, 5, U(g, 2)),
            !.bmi = @ + Normal(0, noise[1], U(g, 3)),
            !.baseline_systolic = @ + Normal(0, noise[2], U(g, 4)),
            !.baseline_diastolic = @ + Normal(0, noise[3], U(g, 5)),
            !.baseline_glucose = @ + Normal(0, noise[4], U(g, 6)),
            !.baseline_hba1c = @ + Normal(0, noise[5], U(g, 7)),
            !.baseline_severity = @ + Normal(0, noise[2], U(g, 4))]

\* mutant: the copy's severity is recomputed from its perturbed attributes
SyntheticRowRecomputed(pool, noise, g) ==
    LET base_patient == Sample1(pool, U(g, 0))
        bmi == base_patient.bmi + Normal(0, noise[1], U(g, 3))
        systolic == base_patient.baseline_systolic + Normal(0, noise[2], U(g, 4))
        glucose == base_patient.baseline_glucose + Normal(0, noise[4], U(g, 6))
        hba1c == base_patient.baseline_hba1c + Normal(0, noise[5], U(g, 7))
    IN  [base_patient EXCEPT
            !.patient_id = SyntheticPatientId(U(g, 1)),
            !.age = @ + RandInt(-5, 5, U(g, 2)),
            !.bmi = bmi,
            !.baseline_systolic = systolic,
            !.baseline_diastolic = @ + Normal(0, noise[3], U(g, 5)),
            !.baseline_glucose = glucose,
            !.baseline_hba1c = hba1c,
            !.baseline_severity =
                RoundSeverity(SeverityOf(bmi, systolic, glucose, hba1c))]

\* one pass of the body of a synthetic loop: eight variates from state g
SyntheticRow(pool, noise, g) ==
    LET base_patient == Sample1(pool, U(g, 0))
    IN  [base_patient EXCEPT
            !.patient_id = SyntheticPatientId(U(g, 1)),
            !.age = @ + RandInt(-5, 5, U(g, 2)),
            !.bmi = @ + Normal(0, noise[1], U(g, 3)),
            !.baseline_systolic = @ + Normal(0, noise[2], U(g, 4)),
            !.baseline_diastolic = @ + Normal(0, noise[3], U(g, 5)),
            !.baseline_glucose = @ + Normal(0, noise[4], U(g, 6)),
            !.baseline_hba1c = @ + Normal(0, noise[5], U(g, 7))]

\* the list a synthetic loop builds in count passes
SyntheticRows(pool, noise, count, g) ==
    [j \in 1..count |-> SyntheticRow(pool, noise, Advance(g, 8 * (j - 1)))]

\* n_synthetic = int(len(df) * amplification_factor), factor in percent
NSynthetic(df, factor) == (Len(df) * factor) \div 100

\* mutant: the high-risk half is rounded up
NHighRiskRoundUp(n_synthetic) == (n_synthetic + 1) \div 2

\* n_high_risk = n_synthetic // 2
NHighRisk(n_synthetic) == n_synthetic \div 2

\* n_low_risk = n_synthetic - n_high_risk
NLowRisk(n_synthetic) == n_synthetic - NHighRisk(n_synthetic)

\* mutant: the synthetic rows are put in front of the input rows
ConcatSyntheticFirst(df, synthetic_df) == synthetic_df \o df

\* pd.concat([df, synthetic_df], ignore_index=True): a new table, the rows
\* of df followed by the rows of synthetic_df
Concat(df, synthetic_df) == df \o synthetic_df

\* the synthetic loops of amplify_edge_cases over the two pools.  sample(1)
\* of an empty pool raises ValueError and the call returns no table.  The
\* pools are selections of df (new tables), each pass assigns to a copy of
\* a copy of the sampled row, and the result is a new table: no statement
\* assigns to df, which the caller finds as it was (input).
AmplifyLoops(df, high_risk_samples, low_risk_samples, n_high_risk, n_low_risk, g) ==
    LET g_low == Advance(g, 8 * n_high_risk)
        failed(at) == [status |-> "ValueError", df |-> <<>>, input |-> df,
                       high |-> <<>>, low |-> <<>>, rng |-> at]
    IN  IF n_high_risk > 0 /\ Len(high_risk_samples) = 0 THEN failed(g)
        ELSE IF n_low_risk > 0 /\ Len(low_risk_samples) = 0 THEN failed(g_low)
        ELSE LET high == SyntheticRows(high_risk_samples, HighRiskNoise,
                                       n_high_risk, g)
                 low == SyntheticRows(low_risk_samples, LowRiskNoise,
                                      n_low_risk, g_low)
             IN  [status |-> "returned", df |-> Concat(df, high \o low),
                  input |-> df, high |-> high, low |-> low,
                  rng |-> Advance(g_low, 8 * n_low_risk)]

\* amplify_edge_cases(df, factor) from generator state g
AmplifyEdgeCases(df, factor, g) ==
    CHOOSE out \in
        {AmplifyLoops(df, hi, lo, NHighRisk(NSynthetic(df, factor)),
                      NLowRisk(NSynthetic(df, factor)), g) :
            hi \in {HighRiskSamples(df)}, lo \in {LowRiskSamples(df)}} : TRUE

\* generate_patient_cohort(n, amplify, factor) from generator state g; base
\* is what generate_base_population(n) returns from g
CohortFrom(base, amplify, factor) ==
    IF amplify THEN AmplifyEdgeCases(base.df, factor, base.rng)
    ELSE [status |-> "returned", df |-> base.df, input |-> <<>>,
          high |-> <<>>, low |-> <<>>, rng |-> base.rng]

(***************************************************************************)
(* MonteCarloHealthcareSimulator.                                          *)
(*                                                                         *)
(* Units: severities and BMI in hundredths, efficacy means and penalties   *)
(* in 1e-5, efficacy samples in thousandths, recovery times in tenths of a *)
(* day, complication rates in percent.  A statistic is kept as the exact   *)
(* fraction [num, den] the reduction computes.                             *)
(***************************************************************************)
\* self.treatment_params.keys(), in insertion order
TreatmentNames == <<"Standard Care", "Intensive Therapy", "Experimental Treatment">>

\* self.treatment_params
treatment_params ==
    [t \in {TreatmentNames[i] : i \in 1..Len(TreatmentNames)} |->
        CASE t = "Standard Care" ->
                [efficacy_mean |-> 65000, efficacy_std |-> 15000,
                 recovery_days_optimistic |-> 30, recovery_days_likely |-> 60,
                 recovery_days_pessimistic |-> 120, complication_rate |-> 10,
                 side_effect_severity |-> 250]
          [] t = "Intensive Therapy" ->
                [efficacy_mean |-> 78000, efficacy_std |-> 18000,
                 recovery_days_optimistic |-> 20, recovery_days_likely |-> 45,
                 recovery_days_pessimistic |-> 90, complication_rate |-> 18,
                 side_effect_severity |-> 450]
          [] t = "Experimental Treatment" ->
                [efficacy_mean |-> 72000, efficacy_std |-> 22000,
                 recovery_days_optimistic |-> 15, recovery_days_likely |-> 40,
                 recovery_days_pessimistic |-> 100, complication_rate |-> 25,
                 side_effect_severity |-> 550]]

\* the largest r with r * r <= x, by bisection of lo..hi
RECURSIVE SqrtBetween(_, _, _)
SqrtBetween(x, lo, hi) ==
    IF lo >= hi THEN lo
    ELSE LET mid == (lo + hi + 1) \div 2
         IN  IF mid * mid <= x THEN SqrtBetween(x, mid, hi)
             ELSE SqrtBetween(x, lo, mid - 1)

ISqrt(x) == SqrtBetween(x, 0, Min(x, 46340))

\* level u as a point of the open unit interval: (2u + 1) / (2 RngLevels)
UnitNum(u) == 2 * u + 1

UnitDen == 2 * RngLevels

\* np.random.beta(alpha, beta) in thousandths (alpha, beta in hundredths):
\* strictly between 0 and 1, at alpha / (alpha + beta) for the middle level
Beta(alpha, beta, u) ==
    (1000 * alpha * UnitNum(u))
        \div (alpha * UnitNum(u) + beta * (UnitDen - UnitNum(u)))

\* np.random.triangular(left, mode, right) in tenths (arguments in units):
\* the inverse distribution function at the point of level u
Triangular(left, mode, right, u) ==
    IF UnitNum(u) * (right - left) < UnitDen * (mode - left)
    THEN 10 * left
            + ISqrt((100 * UnitNum(u) * (right - left) * (mode - left))
                        \div UnitDen)
    ELSE 10 * right
            - ISqrt((100 * (UnitDen - UnitNum(u)) * (right - left)
                        * (right - mode)) \div UnitDen)

\* np.random.random() < prob, prob = rate / 100 * (100000 + penalty) / 100000
RandomBelow(rate, penalty, u) ==
    UnitNum(u) * 10000000 < UnitDen * rate * (100000 + penalty)

\* age_penalty = (age - 50) * 0.002
AgePenalty(age) == (age - 50) * 200

\* mutant: the obesity penalty is linear below BMI 30 as well
BmiPenaltyLinear(bmi) == (bmi - 3000) * 5

\* bmi_penalty = max(0, (bmi - 30) * 0.005)
BmiPenalty(bmi) == Max(0, (bmi - 3000) * 5)

\* severity_penalty = (baseline_severity / 100) * 0.1
SeverityPenalty(baseline_severity) == baseline_severity

\* adjusted_efficacy_mean, clipped to [0.2, 0.95]
AdjustedEfficacyMean(p, params) ==
    Clip(params.efficacy_mean - AgePenalty(p.age) - BmiPenalty(p.bmi)
            - SeverityPenalty(p.baseline_severity), 20000, 95000)

\* mutant: a complication does not prevent the success
IsSuccessDespiteComplication(severity_reduction, baseline_severity, complication) ==
    10 * severity_reduction >= 4 * baseline_severity

\* success[sim]: the reduction is at least 40% of the baseline and the trial
\* had no complication
IsSuccess(severity_reduction, baseline_severity, complication) ==
    10 * severity_reduction >= 4 * baseline_severity /\ ~complication

\* mutant: the reduction is taken of the whole 0-100 scale
SeverityReductionOfScale(baseline_severity, efficacy) ==
    (10000 * efficacy) \div 1000

\* severity_reduction = baseline_severity * efficacy
SeverityReduction(baseline_severity, efficacy) ==
    (baseline_severity * efficacy) \div 1000

\* one pass of the trial loop, sim = 0, 1, ...: three variates
Trial(p, params, adjusted, g, sim) ==
    LET alpha == (adjusted * 10) \div 1000
        beta == ((100000 - adjusted) * 10) \div 1000
        efficacy == Beta(alpha, beta, U(g, 3 * sim))
        severity_reduction == SeverityReduction(p.baseline_severity, efficacy)
        recovery_time == Triangular(params.recovery_days_optimistic,
                                    params.recovery_days_likely,
                                    params.recovery_days_pessimistic,
                                    U(g, 3 * sim + 1))
        complication == RandomBelow(params.complication_rate,
                                    SeverityPenalty(p.baseline_severity),
                                    U(g, 3 * sim + 2))
    IN  [efficacy |-> efficacy,
         severity_reduction |-> severity_reduction,
         recovery_time |-> recovery_time,
         complication |-> complication,
         success |-> IsSuccess(severity_reduction, p.baseline_severity,
                               complication)]

Frac(num, den) == [num |-> num, den |-> den]

RECURSIVE SumSeq(_)
SumSeq(a) == IF Len(a) = 0 THEN 0 ELSE a[1] + SumSeq(Tail(a))

\* ndarray.mean()
Mean(a) == Frac(SumSeq(a), Len(a))

\* np.median of the sorted array s
Median(s) ==
    LET n == Len(s)
    IN  IF n % 2 = 1 THEN Frac(2 * s[(n + 1) \div 2], 2)
        ELSE Frac(s[n \div 2] + s[n \div 2 + 1], 2)

\* the square of ndarray.std(): (n * sum(x^2) - sum(x)^2) / n^2
StdSquared(a) ==
    Frac(Len(a) * SumSeq([i \in 1..Len(a) |-> a[i] * a[i]])
            - SumSeq(a) * SumSeq(a), Len(a) * Len(a))

\* np.percentile(s, q) of the sorted array s: linear interpolation
Percentile(s, q) ==
    LET h == (Len(s) - 1) * q
        lo == h \div 100 + 1
        hi == Min(lo + 1, Len(s))
    IN  Frac(100 * s[lo] + (h % 100) * (s[hi] - s[lo]), 100)

\* the statistics of final_severity and of severity_reduction
SeverityStats(a, s) ==
    [mean |-> Mean(a), median |-> Median(s), std |-> StdSquared(a),
     percentile_5 |-> Percentile(s, 5), percentile_25 |-> Percentile(s, 25),
     percentile_75 |-> Percentile(s, 75), percentile_95 |-> Percentile(s, 95)]

\* the statistics of recovery_time
RecoveryStats(a, s) ==
    [mean |-> Mean(a), median |-> Median(s), std |-> StdSquared(a),
     percentile_5 |-> Percentile(s, 5), percentile_25 |-> Percentile(s, 25),
     percentile_50 |-> Percentile(s, 50), percentile_75 |-> Percentile(s, 75),
     percentile_90 |-> Percentile(s, 90), percentile_95 |-> Percentile(s, 95)]

Sorted(a) == SortSeq(a, LAMBDA x, y : x < y)

\* ndarray.sum() of a boolean array
CountTrue(a) == Cardinality({i \in 1..Len(a) : a[i]})

\* mutant: the fraction is returned as a percentage
ProbabilityPercent(a, num_simulations) ==
    Frac(100 * CountTrue(a), num_simulations)

\* success.sum() / num_simulations
Probability(a, num_simulations) == Frac(CountTrue(a), num_simulations)

\* the results dictionary compiled from the arrays
CompileResults(p, params, adjusted, num_simulations, arr) ==
    [patient_id |-> p.patient_id,
     treatment |-> p.treatment,
     baseline_severity |-> p.baseline_severity,
     simulations |-> num_simulations,
     final_severity |->
        SeverityStats(arr.final_severity_scores,
                      Sorted(arr.final_severity_scores)),
     severity_reduction |->
        SeverityStats(arr.final_severity_reduction,
                      Sorted(arr.final_severity_reduction)),
     recovery_time |->
        RecoveryStats(arr.recovery_times, Sorted(arr.recovery_times)),
     probability_of_success |-> Probability(arr.success, num_simulations),
     probability_of_complications |->
        Probability(arr.complications, num_simulations),
     expected_efficacy |-> adjusted,
     side_effect_severity |-> params.side_effect_severity]

\* mutant: the final scores are the reduction less the baseline
TrialArraysSignSlip(p, trials) ==
    [final_severity_reduction |->
        [i \in 1..Len(trials) |-> trials[i].severity_reduction],
     final_severity_scores |->
        [i \in 1..Len(trials) |->
            trials[i].severity_reduction - p.baseline_severity],
     recovery_times |-> [i \in 1..Len(trials) |-> trials[i].recovery_time],
     complications |-> [i \in 1..Len(trials) |-> trials[i].complication],
     success |-> [i \in 1..Len(trials) |-> trials[i].success]]

\* the arrays the trial loop fills
TrialArrays(p, trials) ==
    [final_severity_reduction |->
        [i \in 1..Len(trials) |-> trials[i].severity_reduction],
     final_severity_scores |->
        [i \in 1..Len(trials) |->
            p.baseline_severity - trials[i].severity_reduction],
     recovery_times |-> [i \in 1..Len(trials) |-> trials[i].recovery_time],
     complications |-> [i \in 1..Len(trials) |-> trials[i].complication],
     success |-> [i \in 1..Len(trials) |-> trials[i].success]]

\* simulate_treatment_outcome(patient, num_simulations) from generator state
\* g, for num_simulations >= 1 and a treatment of the table: the results, the
\* arrays and the generator state after it
SimulateTreatmentOutcome(p, num_simulations, g) ==
    LET params == treatment_params[p.treatment]
        adjusted == AdjustedEfficacyMean(p, params)
    IN  CHOOSE out \in
            {[results |-> CompileResults(p, params, adjusted,
                                         num_simulations, arr),
              arrays |-> arr,
              rng |-> Advance(g, 3 * num_simulations)] :
                arr \in {TrialArrays(p,
                    [i \in 1..num_simulations |->
                        Trial(p, params, adjusted, g, i - 1)])}} : TRUE

\* mutant: test_patient = patient, the same object under a second name
SeriesAlias(heap, ref) == [heap |-> heap, ref |-> ref]

\* patient.copy(): a new object, bound to test_patient
SeriesCopy(heap, ref) ==
    [heap |-> [heap EXCEPT !.test_patient = heap[ref]], ref |-> "test_patient"]

\* mutant: the copy keeps the treatment the patient came with
SetTreatmentSkipped(heap, ref, t) == heap

\* test_patient['treatment'] = treatment
SetTreatment(heap, ref, t) == [heap EXCEPT ![ref].treatment = t]

\* the loop of compare_treatments from treatment i on; heap holds the
\* caller's object (patient) and the loop's copy (test_patient)
RECURSIVE CompareLoop(_, _, _, _, _)
CompareLoop(i, heap, comparison, num_simulations, g) ==
    IF i > Len(TreatmentNames)
    THEN [comparison |-> comparison, heap |-> heap, rng |-> g]
    ELSE CHOOSE out \in
            {CompareLoop(i + 1, h, comparison @@ (TreatmentNames[i] :> r.results),
                         num_simulations, r.rng) :
                <<h, r>> \in
                    {<<h2, SimulateTreatmentOutcome(h2[c.ref], num_simulations, g)>> :
                        <<c, h2>> \in
                            {<<c1, SetTreatment(c1.heap, c1.ref, TreatmentNames[i])>> :
                                c1 \in {SeriesCopy(heap, "patient")}}}} : TRUE

\* compare_treatments(patient, num_simulations) from generator state g
CompareTreatments(p, num_simulations, g) ==
    CompareLoop(1, [patient |-> p, test_patient |-> p], [t \in {} |-> t],
                num_simulations, g)

(***************************************************************************)
(* The simulator's operations.                                             *)
(***************************************************************************)
SimSeeds == 0..MaxSimSeed

\* the patients handed to the simulator: two rosters rows, each under each
\* of the three treatments
PatientProfiles ==
    {[patient_id |-> BasePatientId(1), age |-> 62, gender |-> "Female",
      bmi |-> 3150, baseline_systolic |-> 14200, baseline_diastolic |-> 8800,
      baseline_glucose |-> 13100, baseline_hba1c |-> 690,
      disease |-> "Both", baseline_severity |-> 4520],
     [patient_id |-> SyntheticPatientId(0), age |-> 27, gender |-> "Male",
      bmi |-> 1925, baseline_systolic |-> 9800, baseline_diastolic |-> 6300,
      baseline_glucose |-> 7450, baseline_hba1c |-> 465,
      disease |-> "Hypertension", baseline_severity |-> 870]}

SimPatients ==
    {[patient_id |-> q.patient_id, age |-> q.age, gender |-> q.gender,
      bmi |-> q.bmi, baseline_systolic |-> q.baseline_systolic,
      baseline_diastolic |-> q.baseline_diastolic,
      baseline_glucose |-> q.baseline_glucose,
      baseline_hba1c |-> q.baseline_hba1c, disease |-> q.disease,
      treatment |-> TreatmentNames[i],
      baseline_severity |-> q.baseline_severity] :
        q \in PatientProfiles, i \in 1..Len(TreatmentNames)}

\* simulate_treatment_outcome and compare_treatments tabulated over the
\* generator states, patients and trial counts of the model
SimRngStates == {[seed |-> sd, pos |-> k] : sd \in SimSeeds, k \in 0..MaxSimDraws}

SimulateTable ==
    [g \in SimRngStates, p \in SimPatients, n \in 1..MaxTrials |->
        SimulateTreatmentOutcome(p, n, g)] @@ <<>>

CompareTable ==
    [g \in SimRngStates, p \in SimPatients, n \in 1..MaxTrials |->
        CompareTreatments(p, n, g)] @@ <<>>

NoSimCall == [op |-> "none"]

\* the record of a simulator call: the operation, the seed of the simulator
\* it ran on, whether it was the first to draw after the construction, its
\* arguments and what it returned
SimCallRecord(op, p, num_simulations, returned) ==
    [op |-> op, seed |-> sim_seed, fresh |-> fresh, patient |-> p,
     num_simulations |-> num_simulations, returned |-> returned]

\* the summary a call returned for treatment t
EntryFor(call, t) ==
    IF call.op = "compare_treatments" THEN call.returned[t] ELSE call.returned

NoRel == [prev_op |-> "none"]

\* how a call that returns `returned` relates to the call before it (last):
\* both on simulators of one seed, both the first to draw, same trial count,
\* same patient up to the assigned treatment; and whether the summary for the
\* treatment t both cover is the same
Relation(op, p, num_simulations, returned) ==
    IF last.op = "none" THEN NoRel
    ELSE LET t == IF op = "compare_treatments" THEN last.patient.treatment
                  ELSE p.treatment
             now == [op |-> op, returned |-> returned]
         IN  [prev_op |-> last.op,
              same_seed |-> last.seed = sim_seed,
              both_fresh |-> last.fresh /\ fresh,
              same_trials |-> last.num_simulations = num_simulations,
              same_patient |->
                 [last.patient EXCEPT !.treatment = t] =
                     [p EXCEPT !.treatment = t],
              same_treatment |-> last.patient.treatment = p.treatment,
              treatment |-> t,
              same_result |->
                 IF op = "compare_treatments" /\ last.op = "compare_treatments"
                 THEN returned = last.returned
                 ELSE EntryFor(now, t) = EntryFor(last, t)]

\* no simulator call was made
SimIdle ==
    /\ fresh = FALSE
    /\ sim_seed = 0
    /\ patient = [patient_id |-> <<>>]
    /\ arrays = <<>>
    /\ last = NoSimCall
    /\ rel = NoRel
    /\ sim_status = "none"

\* mutant: the constructor does not seed
SimulatorInitUnseeded(g, seed) == g

\* the global generator after MonteCarloHealthcareSimulator.__init__ ran
\* from generator state g
SimulatorInit(g, seed) == SeedRng(seed)

\* MonteCarloHealthcareSimulator(random_seed=seed)
NewSimulator(seed) ==
    /\ rng' = SimulatorInit(rng, seed)
    /\ fresh' = TRUE
    /\ sim_seed' = seed
    /\ UNCHANGED <<patient, arrays, last, rel, sim_status, gen_vars, ana_vars>>

\* simulator.simulate_treatment_outcome(p, num_simulations)
SimulateCall(p, num_simulations) ==
    /\ rng.pos + 3 * num_simulations <= MaxSimDraws
    /\ \E out \in {SimulateTable[rng, p, num_simulations]} :
        /\ rng' = out.rng
        /\ arrays' = out.arrays
        /\ last' = SimCallRecord("simulate_treatment_outcome", p,
                                 num_simulations, out.results)
        /\ rel' = Relation("simulate_treatment_outcome", p, num_simulations,
                           out.results)
    /\ patient' = p
    /\ fresh' = FALSE
    /\ sim_status' = "returned"
    /\ UNCHANGED <<sim_seed, gen_vars, ana_vars>>

\* simulator.compare_treatments(p, num_simulations)
CompareCall(p, num_simulations) ==
    /\ rng.pos + 3 * Len(TreatmentNames) * num_simulations <= MaxSimDraws
    /\ \E out \in {CompareTable[rng, p, num_simulations]} :
        /\ rng' = out.rng
        /\ patient' = out.heap.patient
        /\ last' = SimCallRecord("compare_treatments", p, num_simulations,
                                 out.comparison)
        /\ rel' = Relation("compare_treatments", p, num_simulations,
                           out.comparison)
    /\ arrays' = <<>>
    /\ fresh' = FALSE
    /\ sim_status' = "returned"
    /\ UNCHANGED <<sim_seed, gen_vars, ana_vars>>

SimInit ==
    /\ rng \in {SeedRng(seed) : seed \in SimSeeds}
    /\ fresh = TRUE
    /\ sim_seed = rng.seed
    /\ patient = [patient_id |-> <<>>]
    /\ arrays = <<>>
    /\ last = NoSimCall
    /\ rel = NoRel
    /\ sim_status = "none"
    /\ GenIdle
    /\ AnaIdle

SimNext ==
    \/ \E seed \in SimSeeds : NewSimulator(seed)
    \/ \E p \in SimPatients, n \in 1..MaxTrials : SimulateCall(p, n)
    \/ \E p \in SimPatients, n \in 1..MaxTrials : CompareCall(p, n)

SpecSim == SimInit /\ [][SimNext]_vars

(***************************************************************************)
(* simulate_cohort, and the simulator over the whole range of arguments.   *)
(***************************************************************************)
\* sample_size: None (not given) or an integer
NoSampleSize == [given |-> FALSE, n |-> 0]

SampleSize(n) == [given |-> TRUE, n |-> n]

\* `if sample_size:` -- None and 0 are both false
Truthy(sample_size) == sample_size.given /\ sample_size.n # 0

\* a sequence without its i-th element
Remove(seq, i) == SubSeq(seq, 1, i - 1) \o SubSeq(seq, i + 1, Len(seq))

\* DataFrame.sample(n = k) of the rows `remaining`, k <= Len(remaining):
\* k rows drawn one after another without replacement, one variate each,
\* in the order drawn
RECURSIVE SampleRows(_, _, _)
SampleRows(remaining, k, g) ==
    IF k = 0 THEN <<>>
    ELSE LET i == RandInt(0, Len(remaining), U(g, 0)) + 1
         IN  <<remaining[i]>> \o SampleRows(Remove(remaining, i), k - 1, Advance(g, 1))

\* the row numbers of patients_df the loop of simulate_cohort iterates over
SelectRows(patients_df, sample_size, g) ==
    LET all == [i \in 1..Len(patients_df) |-> i]
        k == Min(sample_size.n, Len(patients_df))
    IN  IF Truthy(sample_size)
        THEN [rows |-> SampleRows(all, k, g), rng |-> Advance(g, k)]
        ELSE [rows |-> all, rng |-> g]

\* for idx, patient in patients_df.iterrows(): simulate and append
RECURSIVE CohortLoop(_, _, _, _, _)
CohortLoop(patients_df, rows, results_list, num_simulations, g) ==
    IF rows = <<>> THEN [results_list |-> results_list, rng |-> g]
    ELSE LET out == CHOOSE o \in {SimulateTreatmentOutcome(patients_df[Head(rows)], num_simulations, g)} : TRUE
         IN  CohortLoop(patients_df, Tail(rows), Append(results_list, out.results), num_simulations, out.rng)

\* simulate_cohort(patients_df, num_simulations, sample_size) from generator
\* state g, for num_simulations >= 1, sample_size None or >= 0 and rows
\* whose treatment is in the table
SimulateCohort(patients_df, num_simulations, sample_size, g) ==
    LET sel == CHOOSE o \in {SelectRows(patients_df, sample_size, g)} : TRUE
        out == CHOOSE o \in {CohortLoop(patients_df, sel.rows, <<>>, num_simulations, sel.rng)} : TRUE
    IN  [results_list |-> out.results_list, rows |-> sel.rows, rng |-> out.rng]

\* a statistic of an empty array: nan, the quotient 0 / 0
NaN == Frac(0, 0)

\* the results dictionary compiled from empty arrays, where numpy returns
\* nan for every statistic
EmptyResults(p, params, adjusted) ==
    LET stats == [mean |-> NaN, median |-> NaN, std |-> NaN,
                  percentile_5 |-> NaN, percentile_25 |-> NaN,
                  percentile_75 |-> NaN, percentile_95 |-> NaN]
    IN  [patient_id |-> p.patient_id,
         treatment |-> p.treatment,
         baseline_severity |-> p.baseline_severity,
         simulations |-> 0,
         final_severity |-> stats,
         severity_reduction |-> stats,
         recovery_time |-> stats @@ [percentile_50 |-> NaN, percentile_90 |-> NaN],
         probability_of_success |-> NaN,
         probability_of_complications |-> NaN,
         expected_efficacy |-> adjusted,
         side_effect_severity |-> params.side_effect_severity]

\* a call that raised: no results, no variate drawn
Raised(exception, g) ==
    [status |-> exception, results |-> <<>>, arrays |-> <<>>, rng |-> g]

\* the ways simulate_treatment_outcome(patient, num_simulations) can end
\* from generator state g, for any treatment name and any integer trial
\* count.  The lookup of the treatment comes first and raises KeyError for
\* a name outside the table; np.zeros raises ValueError for a negative
\* count; for a count of 0 the loop is empty and the statistics are taken
\* of empty arrays, where np.percentile, by the numpy release, raises
\* IndexError or returns nan.
SimulateOutcomes(p, num_simulations, g) ==
    IF p.treatment \notin DOMAIN treatment_params THEN {Raised("KeyError", g)}
    ELSE IF num_simulations < 0 THEN {Raised("ValueError", g)}
    ELSE IF num_simulations = 0
    THEN {Raised("IndexError", g),
          [status |-> "returned",
           results |-> EmptyResults(p, treatment_params[p.treatment],
                            AdjustedEfficacyMean(p, treatment_params[p.treatment])),
           arrays |-> TrialArrays(p, <<>>), rng |-> g]}
    ELSE {[status |-> "returned", results |-> out.results,
           arrays |-> out.arrays, rng |-> out.rng] :
                out \in {SimulateTreatmentOutcome(p, num_simulations, g)}}

\* a roster row whose baseline severity is 0, under each treatment
ZeroSeverityPatients ==
    {[q EXCEPT !.patient_id = BasePatientId(2), !.baseline_severity = 0] :
        q \in {c \in SimPatients : c.age = 62}}

\* rows whose treatment is not a name of the table
UnknownTreatmentPatients ==
    {[q EXCEPT !.treatment = t] :
        q \in {c \in SimPatients : c.treatment = "Standard Care"},
        t \in {"Placebo", "standard care"}}

\* rows outside the generator's ranges, which the simulator takes as they
\* come: the penalties of the first add up to more than its profile's mean
\* less 0.2, the negative age penalty of the second lifts the mean over 0.95
ExtremePatients ==
    {[q EXCEPT !.patient_id = BasePatientId(3), !.age = 110, !.bmi = 8500,
               !.baseline_severity = 10000] :
        q \in {c \in SimPatients : c.age = 62 /\ c.treatment = "Standard Care"}}
    \cup
    {[q EXCEPT !.patient_id = BasePatientId(4), !.age = -40, !.bmi = 1925,
               !.baseline_severity = 0] :
        q \in {c \in SimPatients : c.age = 62 /\ c.treatment = "Intensive Therapy"}}

InputPatients ==
    SimPatients \cup ZeroSeverityPatients \cup UnknownTreatmentPatients
        \cup ExtremePatients

\* the trial counts handed to simulate_treatment_outcome
TrialCounts == (-1)..MaxTrials

\* simulate_treatment_outcome tabulated over the generator states, patients
\* and trial counts of the model
OutcomesTable ==
    [g \in SimRngStates, p \in InputPatients, n \in TrialCounts |->
        SimulateOutcomes(p, n, g)] @@ <<>>

\* simulator.simulate_treatment_outcome(p, num_simulations), any arguments
SimulateInputCall(p, num_simulations) ==
    /\ rng.pos + 3 * Max(num_simulations, 0) <= MaxSimDraws
    /\ \E out \in OutcomesTable[rng, p, num_simulations] :
        /\ rng' = out.rng
        /\ arrays' = out.arrays
        /\ last' = SimCallRecord("simulate_treatment_outcome", p,
                                 num_simulations, out.results)
        /\ sim_status' = out.status
    /\ patient' = p
    /\ fresh' = FALSE
    /\ rel' = NoRel
    /\ UNCHANGED <<sim_seed, gen_vars, ana_vars>>

\* row i of the rosters handed to simulate_cohort
RosterRow(i) ==
    LET q == CHOOSE c \in PatientProfiles : (c.age = 62) <=> (i % 2 = 1)
    IN  [patient_id |-> BasePatientId(i), age |-> q.age, gender |-> q.gender,
         bmi |-> q.bmi, baseline_systolic |-> q.baseline_systolic,
         baseline_diastolic |-> q.baseline_diastolic,
         baseline_glucose |-> q.baseline_glucose,
         baseline_hba1c |-> q.baseline_hba1c, disease |-> q.disease,
         treatment |-> TreatmentNames[(i % Len(TreatmentNames)) + 1],
         baseline_severity |-> q.baseline_severity]

Rosters == {[i \in 1..m |-> RosterRow(i)] : m \in 0..MaxRoster}

SampleSizes == {NoSampleSize} \cup {SampleSize(n) : n \in 0..(MaxRoster + 1)}

\* simulate_cohort tabulated over the generator states, rosters, trial
\* counts and sample sizes of the model
CohortTable ==
    [g \in SimRngStates, df \in Rosters, n \in 1..MaxTrials, k \in SampleSizes |->
        IF g.pos + (1 + 3 * n) * Len(df) <= MaxSimDraws
        THEN SimulateCohort(df, n, k, g) ELSE <<>>] @@ <<>>

\* simulator.simulate_cohort(patients_df, num_simulations, sample_size)
CohortCall(patients_df, num_simulations, sample_size) ==
    /\ rng.pos + (1 + 3 * num_simulations) * Len(patients_df) <= MaxSimDraws
    /\ \E out \in {CohortTable[rng, patients_df, num_simulations, sample_size]} :
        /\ rng' = out.rng
        /\ last' = [op |-> "simulate_cohort", seed |-> sim_seed,
                    fresh |-> fresh, patients_df |-> patients_df,
                    num_simulations |-> num_simulations,
                    sample_size |-> sample_size, rows |-> out.rows,
                    returned |-> out.results_list]
    /\ sim_status' = "returned"
    /\ fresh' = FALSE
    /\ arrays' = <<>>
    /\ rel' = NoRel
    /\ UNCHANGED <<patient, sim_seed, gen_vars, ana_vars>>

InputsNext ==
    \/ \E seed \in SimSeeds : NewSimulator(seed)
    \/ \E p \in InputPatients, n \in TrialCounts : SimulateInputCall(p, n)

SpecSimInputs == SimInit /\ [][InputsNext]_vars

CohortNext ==
    \/ \E seed \in SimSeeds : NewSimulator(seed)
    \/ \E df \in Rosters, n \in 1..MaxTrials, k \in SampleSizes : CohortCall(df, n, k)

SpecCohort == SimInit /\ [][CohortNext]_vars

(***************************************************************************)
(* The generator's operations.                                             *)
(***************************************************************************)
\* HealthcareDataGenerator(random_seed=seed): a new generator, no table yet
NewGenerator(seed) ==
    /\ UNCHANGED <<sim_vars, ana_vars>>
    /\ rng' = SeedRng(seed)
    /\ cohort' = <<>>
    /\ gen_status' = "none"
    /\ gen_call' = NoCall
    /\ base_df' = <<>>
    /\ input_df' = <<>>
    /\ disease_probs' = <<>>
    /\ synthetic_high_risk' = <<>>
    /\ synthetic_low_risk' = <<>>

\* generator.generate_patient_cohort(n, amplify, factor)
GenerateCohortCall(n, amplify, factor) ==
    /\ UNCHANGED <<sim_vars, ana_vars>>
    /\ rng.pos + 9 * n + 8 * NSynthetic([i \in 1..n |-> i], factor) <= MaxDraws
    /\ \E base \in {GenerateBasePopulation(rng, n)} :
         \E out \in {CohortFrom(base, amplify, factor)} :
            /\ rng' = out.rng
            /\ cohort' = out.df
            /\ gen_status' = out.status
            /\ gen_call' = [op |-> "generate_patient_cohort", n |-> n,
                            amplify |-> amplify, factor |-> factor]
            /\ base_df' = base.df
            /\ input_df' = out.input
            /\ disease_probs' = base.disease_probs
            /\ synthetic_high_risk' = out.high
            /\ synthetic_low_risk' = out.low

\* generator.amplify_edge_cases(cohort, factor) on the table last returned
AmplifyCall(factor) ==
    /\ UNCHANGED <<sim_vars, ana_vars>>
    /\ gen_status = "returned"
    /\ Len(cohort) <= MaxRows
    /\ rng.pos + 8 * NSynthetic(cohort, factor) <= MaxDraws
    /\ \E out \in {AmplifyEdgeCases(cohort, factor, rng)} :
            /\ rng' = out.rng
            /\ cohort' = out.df
            /\ gen_status' = out.status
            /\ gen_call' = [op |-> "amplify_edge_cases", n |-> Len(cohort),
                            amplify |-> TRUE, factor |-> factor]
            /\ base_df' = cohort
            /\ input_df' = out.input
            /\ UNCHANGED disease_probs
            /\ synthetic_high_risk' = out.high
            /\ synthetic_low_risk' = out.low

GenInit ==
    /\ rng \in {SeedRng(seed) : seed \in Seeds}
    /\ GenIdle
    /\ SimIdle
    /\ AnaIdle

GenNext ==
    \/ \E seed \in Seeds : NewGenerator(seed)
    \/ \E n \in 0..MaxPatients, amplify \in BOOLEAN, factor \in FactorChoices :
            GenerateCohortCall(n, amplify, factor)
    \/ \E factor \in FactorChoices : AmplifyCall(factor)

SpecGen == GenInit /\ [][GenNext]_vars

(***************************************************************************)
(* HealthcareAnalyzer.                                                     *)
(*                                                                         *)
(* Units: probabilities in thousandths, severities in hundredths, recovery *)
(* days in tenths.  A mean over rows is the exact fraction [num, den]; nan *)
(* is the fraction 0 / 0.                                                  *)
(***************************************************************************)
\* a <= b, for fractions with positive denominators
FracLE(a, b) == a.num * b.den <= b.num * a.den

\* results_df[c] as an array
Column(rows, c) == [i \in 1..Len(rows) |-> rows[i][c]]

\* results_df[c].apply(lambda x: x['mean'])
BundleMeans(rows, c) == [i \in 1..Len(rows) |-> rows[i][c].mean]

\* Series.unique(): the values in the order of their first appearance
RECURSIVE Unique(_)
Unique(a) ==
    IF a = <<>> THEN <<>>
    ELSE LET init == Unique(SubSeq(a, 1, Len(a) - 1))
         IN  IF \E i \in 1..Len(init) : init[i] = a[Len(a)] THEN init
             ELSE Append(init, a[Len(a)])

\* results_df[results_df['treatment'] == treatment]
WhereTreatment(rows, treatment) ==
    SelectSeq(rows, LAMBDA r : r.treatment = treatment)

\* the square of Series.std() (ddof = 1): nan for a single value
SampleVariance(a) ==
    Frac(Len(a) * SumSeq([i \in 1..Len(a) |-> a[i] * a[i]])
            - SumSeq(a) * SumSeq(a), Len(a) * (Len(a) - 1))

\* the square of Series.sem(): std / sqrt(count)
SemSquared(a) ==
    Frac(SampleVariance(a).num, SampleVariance(a).den * Len(a))

\* generate_summary_statistics(results_df)
GenerateSummaryStatistics(rows) ==
    LET names == Unique(Column(rows, "treatment"))
        present == {names[i] : i \in 1..Len(names)}
        success(t) == Column(WhereTreatment(rows, t), "probability_of_success")
        severity == Column(rows, "baseline_severity")
    IN  [total_patients |-> Len(rows),
         treatments |->
            [distribution |->
                [t \in present |-> Len(WhereTreatment(rows, t))],
             success_rates |->
                [t \in present |->
                    [mean |-> Mean(success(t)),
                     std |-> SampleVariance(success(t)),
                     median |-> Median(Sorted(success(t)))]]],
         overall_metrics |->
            [mean_success_rate |->
                Mean(Column(rows, "probability_of_success")),
             mean_complication_rate |->
                Mean(Column(rows, "probability_of_complications")),
             high_risk_patients |->
                Cardinality({i \in 1..Len(rows) : severity[i] > 7000}),
             low_risk_patients |->
                Cardinality({i \in 1..Len(rows) : severity[i] < 3000})]]

\* the row compare_treatments_analysis appends for one treatment
ComparisonRow(treatment_data, treatment) ==
    [Treatment |-> treatment,
     N_Patients |-> Len(treatment_data),
     Mean_Success_Rate |->
        Mean(Column(treatment_data, "probability_of_success")),
     Mean_Complication_Rate |->
        Mean(Column(treatment_data, "probability_of_complications")),
     Mean_Recovery_Days |-> Mean(BundleMeans(treatment_data, "recovery_time")),
     Mean_Severity_Reduction |->
        Mean(BundleMeans(treatment_data, "severity_reduction")),
     Success_Rate_Std |->
        SampleVariance(Column(treatment_data, "probability_of_success"))]

\* the list `comparison`: one row per treatment, in order of appearance
ComparisonRows(rows) ==
    LET names == Unique(Column(rows, "treatment"))
    IN  [i \in 1..Len(names) |->
            ComparisonRow(WhereTreatment(rows, names[i]), names[i])]

RowOrders(k) ==
    {f \in [1..k -> 1..k] : \A i, j \in 1..k : f[i] = f[j] => i = j}

\* mutant: the rows are sorted by ascending mean success rate
SortValuesAscending(a) ==
    {[i \in 1..Len(a) |-> a[f[i]]] :
        f \in {h \in RowOrders(Len(a)) :
                \A i \in 1..(Len(a) - 1) :
                    FracLE(a[h[i]].Mean_Success_Rate,
                           a[h[i + 1]].Mean_Success_Rate)}}

\* comparison_df.sort_values('Mean_Success_Rate', ascending=False): the
\* default sort is not stable, so rows of equal key come in any order; the
\* set of the tables the call can return
SortValues(a) ==
    {[i \in 1..Len(a) |-> a[f[i]]] :
        f \in {h \in RowOrders(Len(a)) :
                \A i \in 1..(Len(a) - 1) :
                    FracLE(a[h[i + 1]].Mean_Success_Rate,
                           a[h[i]].Mean_Success_Rate)}}

\* compare_treatments_analysis(results_df): the tables it can return
CompareTreatmentsAnalysis(rows) == SortValues(ComparisonRows(rows))

\* bins=[0, 30, 50, 70, 100] and their labels
Bins == <<0, 3000, 5000, 7000, 10000>>

Labels == <<"Low", "Moderate", "High", "Very High">>

\* pd.cut(x, bins, labels): bin i is (bins[i], bins[i+1]], open on the left
\* and closed on the right; a value in no bin gets NaN
Cut(x) ==
    IF \E i \in 1..Len(Labels) : Bins[i] < x /\ x <= Bins[i + 1]
    THEN Labels[CHOOSE i \in 1..Len(Labels) : Bins[i] < x /\ x <= Bins[i + 1]]
    ELSE "NaN"

\* results_df[c] = values: the column is set on the table itself
SetColumn(table, c, values) ==
    [columns |-> table.columns \cup {c},
     rows |-> [i \in 1..Len(table.rows) |->
                [f \in (DOMAIN table.rows[i]) \cup {c} |->
                    IF f = c THEN values[i] ELSE table.rows[i][f]]]]

\* the entry of risk_analysis for the rows of one category
RiskEntry(category_data) ==
    [n_patients |-> Len(category_data),
     mean_success_rate |->
        Mean(Column(category_data, "probability_of_success")),
     mean_complication_rate |->
        Mean(Column(category_data, "probability_of_complications")),
     mean_recovery_time |-> Mean(BundleMeans(category_data, "recovery_time")),
     mean_baseline_severity |->
        Mean(Column(category_data, "baseline_severity"))]

\* risk_stratification_analysis(results_df): the table after the call and
\* the dictionary returned
RiskStratificationAnalysis(table) ==
    LET df == SetColumn(table, "risk_category",
                [i \in 1..Len(table.rows) |->
                    Cut(table.rows[i].baseline_severity)])
        data(c) == SelectSeq(df.rows, LAMBDA r : r.risk_category = c)
        found == {c \in {Labels[i] : i \in 1..Len(Labels)} : Len(data(c)) > 0}
    IN  [results_df |-> df,
         risk_analysis |-> [c \in found |-> RiskEntry(data(c))]]

\* stats.t.interval(confidence_level, dof, mean, std_err): nan for both ends
\* when dof <= 0 or the scale is nan or 0; else mean -/+ t(dof) * std_err,
\* kept as its terms
TInterval(dof, mean, sem_squared) ==
    IF dof <= 0 \/ sem_squared.den = 0 \/ sem_squared.num = 0
    THEN [lower |-> NaN, upper |-> NaN, margin |-> NaN]
    ELSE [lower |-> [centre |-> mean, side |-> -1, t_dof |-> dof,
                     scale_squared |-> sem_squared],
          upper |-> [centre |-> mean, side |-> 1, t_dof |-> dof,
                     scale_squared |-> sem_squared],
          margin |-> [t_dof |-> dof, scale_squared |-> sem_squared]]

\* the row confidence_interval_analysis appends for one treatment
IntervalRow(treatment_data, treatment) ==
    LET ci == TInterval(Len(treatment_data) - 1, Mean(treatment_data),
                        SemSquared(treatment_data))
    IN  [Treatment |-> treatment, Mean |-> Mean(treatment_data),
         Lower_CI |-> ci.lower, Upper_CI |-> ci.upper,
         Margin_of_Error |-> ci.margin]

\* confidence_interval_analysis(results_df, metric)
ConfidenceIntervalAnalysis(rows, metric) ==
    LET names == Unique(Column(rows, "treatment"))
    IN  [i \in 1..Len(names) |->
            IntervalRow(Column(WhereTreatment(rows, names[i]), metric),
                        names[i])]

(***************************************************************************)
(* The analyzer's operations, on summaries tables of 1..MaxSummaries rows. *)
(***************************************************************************)
\* the columns of pd.DataFrame(results_list)
SummaryColumns ==
    {"patient_id", "treatment", "baseline_severity", "simulations",
     "final_severity", "severity_reduction", "recovery_time",
     "probability_of_success", "probability_of_complications",
     "expected_efficacy", "side_effect_severity"}

\* the kinds of summaries a table is made of: treatment, baseline severity,
\* success and complication probability, mean recovery time and mean
\* severity reduction of 1000 trials
SummaryKinds ==
    <<<<"Standard Care", 0, 700, 100, 650, 0>>,
      <<"Intensive Therapy", 1550, 850, 150, 480, 1200>>,
      <<"Standard Care", 3000, 650, 110, 700, 1900>>,
      <<"Experimental Treatment", 3010, 850, 260, 520, 2100>>,
      <<"Intensive Therapy", 5000, 800, 190, 500, 3800>>,
      <<"Experimental Treatment", 6990, 700, 280, 510, 5000>>,
      <<"Standard Care", 7000, 600, 120, 720, 4500>>,
      <<"Intensive Therapy", 10000, 750, 200, 515, 7600>>>>

\* row i of a table, of kind k (the bundles are cut down to the mean, the
\* one statistic the analyzer reads)
SummaryRow(i, k) ==
    [patient_id |-> BasePatientId(i),
     treatment |-> SummaryKinds[k][1],
     baseline_severity |-> SummaryKinds[k][2],
     simulations |-> 1000,
     final_severity |-> [mean |-> SummaryKinds[k][2] - SummaryKinds[k][6]],
     severity_reduction |-> [mean |-> SummaryKinds[k][6]],
     recovery_time |-> [mean |-> SummaryKinds[k][5]],
     probability_of_success |-> SummaryKinds[k][3],
     probability_of_complications |-> SummaryKinds[k][4],
     expected_efficacy |-> treatment_params[SummaryKinds[k][1]].efficacy_mean,
     side_effect_severity |->
        treatment_params[SummaryKinds[k][1]].side_effect_severity]

SummaryTables ==
    UNION {{[columns |-> SummaryColumns,
             rows |-> [i \in 1..m |-> SummaryRow(i, f[i])]] :
                f \in [1..m -> 1..Len(SummaryKinds)]} : m \in 1..MaxSummaries}

AnaCall(op) == [op |-> op, before |-> results_df]

\* analyzer.generate_summary_statistics(results_df)
SummaryCall ==
    /\ report' = GenerateSummaryStatistics(results_df.rows)
    /\ ana_call' = AnaCall("generate_summary_statistics")
    /\ ana_status' = "returned"
    /\ UNCHANGED <<results_df, rng, gen_vars, sim_vars>>

\* analyzer.compare_treatments_analysis(results_df)
CompareAnalysisCall ==
    /\ report' \in CompareTreatmentsAnalysis(results_df.rows)
    /\ ana_call' = AnaCall("compare_treatments_analysis")
    /\ ana_status' = "returned"
    /\ UNCHANGED <<results_df, rng, gen_vars, sim_vars>>

\* analyzer.risk_stratification_analysis(results_df)
RiskCall ==
    /\ \E out \in {RiskStratificationAnalysis(results_df)} :
        /\ results_df' = out.results_df
        /\ report' = out.risk_analysis
    /\ ana_call' = AnaCall("risk_stratification_analysis")
    /\ ana_status' = "returned"
    /\ UNCHANGED <<rng, gen_vars, sim_vars>>

\* analyzer.confidence_interval_analysis(results_df)
ConfidenceCall ==
    /\ report' = ConfidenceIntervalAnalysis(results_df.rows,
                                            "probability_of_success")
    /\ ana_call' = AnaCall("confidence_interval_analysis")
    /\ ana_status' = "returned"
    /\ UNCHANGED <<results_df, rng, gen_vars, sim_vars>>

AnaInit ==
    /\ rng = SeedRng(0)
    /\ GenIdle
    /\ SimIdle
    /\ results_df \in SummaryTables
    /\ ana_call = [op |-> "none"]
    /\ report = <<>>
    /\ ana_status = "none"

AnaNext ==
    \/ SummaryCall
    \/ CompareAnalysisCall
    \/ RiskCall
    \/ ConfidenceCall

SpecAnalyzer == AnaInit /\ [][AnaNext]_vars

(***************************************************************************)
(* Claims about the generator (checked under SpecGen).                     *)
(***************************************************************************)
Returned == gen_status = "returned"

Rows == {cohort[i] : i \in 1..Len(cohort)}

\* the number a sequence of decimal digit characters denotes
RECURSIVE DigitsValue(_)
DigitsValue(s) ==
    IF Len(s) = 0 THEN 0
    ELSE 10 * DigitsValue(SubSeq(s, 1, Len(s) - 1))
            + (CHOOSE d \in 0..9 : Digit(d) = s[Len(s)])

\* C1: every row of every returned cohort, amplified or not, has its
\* baseline severity in [0, 100].
C1_SeverityInRange ==
    Returned => \A r \in Rows : r.baseline_severity \in 0..10000

C1_Witness ==
    /\ Returned
    /\ gen_call.op = "generate_patient_cohort" /\ gen_call.amplify
    /\ Len(synthetic_high_risk) >= 1 /\ Len(synthetic_low_risk) >= 1
    /\ \E r \in Rows : r.baseline_severity > 9000

\* C2: every row of every returned cohort, the synthetic rows included, has
\* age in [30, 85], BMI in [18, 50], systolic in [90, 180], diastolic in
\* [60, 120], glucose in [70, 180] and HbA1c in [4.5, 10].
C2_FieldsInRange ==
    Returned => \A r \in Rows :
        /\ r.age \in 30..85
        /\ r.bmi \in 1800..5000
        /\ r.baseline_systolic \in 9000..18000
        /\ r.baseline_diastolic \in 6000..12000
        /\ r.baseline_glucose \in 7000..18000
        /\ r.baseline_hba1c \in 450..1000

\* C3: without amplification the cohort is exactly the n base rows, and
\* row i carries the identifier PT followed by i written in six digits; the
\* identifiers are pairwise distinct.
C3_BaseIds ==
    (Returned /\ gen_call.op = "generate_patient_cohort" /\ ~gen_call.amplify)
    => /\ Len(cohort) = gen_call.n
       /\ cohort = base_df
       /\ \A i \in 1..Len(cohort) :
            /\ Len(cohort[i].patient_id) = 8
            /\ SubSeq(cohort[i].patient_id, 1, 2) = <<"P", "T">>
            /\ DigitsValue(SubSeq(cohort[i].patient_id, 3, 8)) = i
       /\ \A i, j \in 1..Len(cohort) :
            i # j => cohort[i].patient_id # cohort[j].patient_id

C3_Witness ==
    /\ Returned /\ gen_call.op = "generate_patient_cohort" /\ ~gen_call.amplify
    /\ gen_call.n = MaxPatients
    /\ Len(cohort) = MaxPatients

\* C4: in every cohort returned with amplification all patient_id values are
\* pairwise distinct.
C4_IdsDistinct ==
    (Returned /\ gen_call.op = "generate_patient_cohort" /\ gen_call.amplify)
    => \A i, j \in 1..Len(cohort) :
            i # j => cohort[i].patient_id # cohort[j].patient_id

\* a synthetic row is a copy of pool row b: the fields the loop body leaves
\* alone are b's
CopyOf(row, b) ==
    /\ row.gender = b.gender /\ row.disease = b.disease
    /\ row.treatment = b.treatment
    /\ row.baseline_severity = b.baseline_severity

\* C5: amplify_edge_cases returns len(patients) + k rows, k = floor(len *
\* factor): the input rows, then floor(k/2) copies from the high-severity
\* pool, then k - floor(k/2) copies from the low-severity pool; with k >= 1
\* the result is strictly larger than the input.
C5_AmplifiedSize ==
    (Returned /\ gen_call.amplify)
    => LET k == (Len(base_df) * gen_call.factor) \div 100
       IN  /\ Len(cohort) = Len(base_df) + k
           /\ Len(synthetic_high_risk) = k \div 2
           /\ Len(synthetic_low_risk) = k - (k \div 2)
           /\ cohort = base_df \o synthetic_high_risk \o synthetic_low_risk
           /\ \A j \in 1..Len(synthetic_high_risk) :
                \E i \in 1..Len(HighRiskSamples(base_df)) :
                    CopyOf(synthetic_high_risk[j], HighRiskSamples(base_df)[i])
           /\ \A j \in 1..Len(synthetic_low_risk) :
                \E i \in 1..Len(LowRiskSamples(base_df)) :
                    CopyOf(synthetic_low_risk[j], LowRiskSamples(base_df)[i])
           /\ (k >= 1 => Len(cohort) > Len(base_df))

C5_Witness ==
    /\ Returned /\ gen_call.amplify
    /\ (Len(base_df) * gen_call.factor) \div 100 = 3
    /\ Len(synthetic_high_risk) = 1 /\ Len(synthetic_low_risk) = 2

\* the last call ran amplify_edge_cases on base_df with a non-zero synthetic
\* count, and one of the two source pools of base_df holds no patient
AmplifiedFromEmptyPool ==
    /\ gen_call.amplify
    /\ NSynthetic(base_df, gen_call.factor) > 0
    /\ (Len(HighRiskSamples(base_df)) = 0 \/ Len(LowRiskSamples(base_df)) = 0)

\* C15: amplify_edge_cases with a non-zero synthetic count on a table whose
\* high-severity or low-severity pool is empty either fails with
\* EmptyPoolError or returns a table; it fails with no other error.
C15_EmptyPoolHandled ==
    AmplifiedFromEmptyPool => gen_status \in {"EmptyPoolError", "returned"}

\* the severity recomputed from the row's own stored attributes differs from
\* the row's severity by no more than the rounding of the stored columns
\* (BMI to 0.1, pressure and glucose to 1, HbA1c to 0.01, severity to 0.1)
\* can account for: 0.4 points
SeverityFromOwnAttributes(r) ==
    LET recomputed == SeverityOf(r.bmi, r.baseline_systolic,
                                 r.baseline_glucose, r.baseline_hba1c)
        d == 15840 * r.baseline_severity - recomputed
    IN  -40 * 15840 <= d /\ d <= 40 * 15840

\* C21: in every cohort generate_patient_cohort returns, base or amplified,
\* each row's baseline_severity is the weighted sum of that row's own BMI,
\* systolic pressure, glucose and HbA1c, clamped to [0, 100].
C21_SeverityRecomputed ==
    (Returned /\ gen_call.op = "generate_patient_cohort")
    => \A r \in Rows : SeverityFromOwnAttributes(r)

\* C22: amplify_edge_cases leaves the rows it was given alone: the first
\* len(patients) rows of the table it returns are the input rows, field for
\* field and in the input order, and the caller's table is after the call
\* (returned or raised) what it was before.
C22_InputRowsKept ==
    gen_call.amplify
    => /\ input_df = base_df
       /\ Returned => /\ Len(cohort) >= Len(base_df)
                       /\ \A i \in 1..Len(base_df) : cohort[i] = base_df[i]

C22_Witness ==
    /\ Returned /\ gen_call.op = "amplify_edge_cases"
    /\ Len(base_df) >= 3
    /\ Len(synthetic_high_risk) >= 1 /\ Len(synthetic_low_risk) >= 1
    /\ \A i \in 1..Len(base_df) : cohort[i] = base_df[i]
    /\ input_df = base_df

\* some row of the table amplify_edge_cases was given has the severity sev
SeverityOfSomeInputRow(sev) ==
    \E i \in 1..Len(base_df) : base_df[i].baseline_severity = sev

\* C27: a synthetic row keeps the severity of the row it was copied from:
\* every copy from the high pool has a severity of the input table that is
\* at or above the 90th percentile of the input severities, every copy from
\* the low pool one that is at or below the 10th percentile.
C27_SyntheticSeverityKept ==
    (Returned /\ gen_call.amplify)
    => /\ \A j \in 1..Len(synthetic_high_risk) :
            /\ SeverityOfSomeInputRow(synthetic_high_risk[j].baseline_severity)
            /\ 10 * synthetic_high_risk[j].baseline_severity
                    >= Quantile10(SeverityColumn(base_df), 9)
       /\ \A j \in 1..Len(synthetic_low_risk) :
            /\ SeverityOfSomeInputRow(synthetic_low_risk[j].baseline_severity)
            /\ 10 * synthetic_low_risk[j].baseline_severity
                    <= Quantile10(SeverityColumn(base_df), 1)

C27_Witness ==
    /\ Returned /\ gen_call.amplify
    /\ \E j \in 1..Len(synthetic_high_risk) :
            /\ ~SeverityFromOwnAttributes(synthetic_high_risk[j])
            /\ SeverityOfSomeInputRow(synthetic_high_risk[j].baseline_severity)
    /\ \E j \in 1..Len(synthetic_low_risk) :
            /\ ~SeverityFromOwnAttributes(synthetic_low_risk[j])
            /\ SeverityOfSomeInputRow(synthetic_low_risk[j].baseline_severity)

\* the probability tables of the three branches (percent, in the order of
\* diseases) and the values the risk score takes
DiseaseTables == {<<30, 30, 40>>, <<40, 40, 20>>, <<50, 45, 5>>}

RiskScores == {DiseaseRisk(bmi, systolic, glucose) : bmi \in {3000, 3001}, systolic \in {14000, 14001}, glucose \in {12600, 12601}}

\* the table generate_base_population draws the disease of a patient of
\* the given risk score from
TableOfRisk(risk) == DiseaseTable(DiseaseProb60(risk))

\* C24: every one of the three disease tables is the table of at least one
\* risk score 0..3, and a higher risk score never selects a table with a
\* lower probability of the most severe category ("Both").
C24_TablesByRisk ==
    (Returned /\ gen_call.op = "generate_patient_cohort" /\ gen_call.n > 0)
    => /\ \A i \in 1..Len(disease_probs) :
            disease_probs[i].p = TableOfRisk(disease_probs[i].disease_risk)
       /\ \A table \in DiseaseTables :
            \E risk \in RiskScores : TableOfRisk(risk) = table
       /\ \A low, high \in RiskScores :
            low <= high => TableOfRisk(low)[3] <= TableOfRisk(high)[3]

(***************************************************************************)
(* Claims about the simulator (checked under SpecSim).                     *)
(***************************************************************************)
Simulated == last.op = "simulate_treatment_outcome"

Compared == last.op = "compare_treatments"

\* the last two calls ran with the same trial count, each as the first
\* operation of a simulator constructed with the same seed
TwinCalls ==
    /\ rel.prev_op # "none"
    /\ rel.same_seed /\ rel.both_fresh /\ rel.same_trials

\* C6: two simulate_treatment_outcome calls with identical patient,
\* treatment, trial count and seed, each made on a simulator newly
\* constructed with that seed, return identical summaries.
C6_Deterministic ==
    (/\ Simulated /\ TwinCalls
     /\ rel.prev_op = "simulate_treatment_outcome"
     /\ rel.same_patient /\ rel.same_treatment)
    => rel.same_result

C6_Witness ==
    /\ Simulated /\ TwinCalls
    /\ rel.prev_op = "simulate_treatment_outcome"
    /\ rel.same_patient /\ rel.same_treatment
    /\ last.num_simulations = MaxTrials
    /\ rel.same_result

\* C23: the summary of simulate_treatment_outcome is a function of the
\* patient, the trial count and the seed its simulator was constructed with:
\* two calls that agree on these return the same summary, whatever ran
\* between each simulator's construction and its call.
C23_NoSharedState ==
    (/\ Simulated
     /\ rel.prev_op = "simulate_treatment_outcome"
     /\ rel.same_seed /\ rel.same_trials
     /\ rel.same_patient /\ rel.same_treatment)
    => rel.same_result

\* C7: for each treatment T the entry compare_treatments(patient, n)[T]
\* equals the summary of a direct simulate_treatment_outcome call, on a
\* simulator constructed with the same seed, on the patient retargeted to T.
C7_CompareMatchesDirect ==
    (/\ TwinCalls
     /\ {rel.prev_op, last.op} =
            {"compare_treatments", "simulate_treatment_outcome"}
     /\ rel.same_patient)
    => rel.same_result

\* C8: compare_treatments returns exactly three entries, keyed by the three
\* profile names; each entry carries its key as treatment and the patient's
\* identifier and baseline severity.
C8_CompareEntries ==
    Compared =>
        /\ DOMAIN last.returned =
            {"Standard Care", "Intensive Therapy", "Experimental Treatment"}
        /\ Cardinality(DOMAIN last.returned) = 3
        /\ \A t \in DOMAIN last.returned :
            /\ last.returned[t].treatment = t
            /\ last.returned[t].patient_id = last.patient.patient_id
            /\ last.returned[t].baseline_severity =
                    last.patient.baseline_severity

C8_Witness ==
    /\ Compared
    /\ last.num_simulations = MaxTrials
    /\ last.patient.treatment = "Intensive Therapy"

\* C9: compare_treatments leaves the caller's patient as it was: the
\* assigned treatment and every other field.
C9_PatientUnchanged == Compared => patient = last.patient

C9_Witness ==
    /\ Compared
    /\ last.patient.treatment = "Standard Care"
    /\ last.returned["Experimental Treatment"].treatment
            # last.patient.treatment
    /\ patient.treatment = "Standard Care"

\* C10: for n >= 1 trials the two probabilities are the trial-count
\* fractions (success trials / n, complication trials / n), each in [0, 1].
C10_Probabilities ==
    Simulated =>
        LET n == last.num_simulations
            ps == last.returned.probability_of_success
            pc == last.returned.probability_of_complications
        IN  /\ n >= 1
            /\ Len(arrays.success) = n /\ Len(arrays.complications) = n
            /\ ps.den = n /\ pc.den = n
            /\ ps.num = Cardinality({i \in 1..n : arrays.success[i]})
            /\ pc.num = Cardinality({i \in 1..n : arrays.complications[i]})
            /\ 0 <= ps.num /\ ps.num <= ps.den
            /\ 0 <= pc.num /\ pc.num <= pc.den

C10_Witness ==
    /\ Simulated
    /\ last.num_simulations = MaxTrials
    /\ last.returned.probability_of_success.num >= 1
    /\ last.returned.probability_of_complications.num >= 1

\* trial i of the last simulate call reduced the severity by at least 40% of
\* the patient's baseline
ReducedEnough(i) ==
    10 * arrays.final_severity_reduction[i] >= 4 * last.patient.baseline_severity

\* C25: a trial of simulate_treatment_outcome counts as a success exactly
\* when its severity reduction is at least 40% of the baseline severity and
\* the same trial had no complication; no trial is both a success and a
\* complication.
C25_SuccessRule ==
    Simulated =>
        \A i \in 1..Len(arrays.success) :
            /\ arrays.success[i] <=> (ReducedEnough(i) /\ ~arrays.complications[i])
            /\ ~(arrays.success[i] /\ arrays.complications[i])

C25_Witness ==
    /\ Simulated
    /\ \E i, j \in 1..Len(arrays.success) :
        /\ arrays.success[i] /\ ReducedEnough(i) /\ ~arrays.complications[i]
        /\ ~arrays.success[j] /\ ReducedEnough(j) /\ arrays.complications[j]

(***************************************************************************)
(* Claims about simulate_cohort (checked under SpecCohort) and about the   *)
(* simulator's arguments (checked under SpecSimInputs).                    *)
(***************************************************************************)
CohortSimulated == last.op = "simulate_cohort" /\ sim_status = "returned"

\* the number of rows simulate_cohort is to select
SelectedCount(patients_df, sample_size) ==
    IF sample_size.given THEN Min(sample_size.n, Len(patients_df))
    ELSE Len(patients_df)

\* C11: simulate_cohort returns one summary per selected patient:
\* min(sample_size, rows) summaries for a given sample_size >= 0, one per
\* roster row when none is given; no roster row is simulated twice.
C11_CohortSize ==
    CohortSimulated =>
        /\ Len(last.returned) = SelectedCount(last.patients_df, last.sample_size)
        /\ Len(last.rows) = Len(last.returned)
        /\ \A i, j \in 1..Len(last.rows) : last.rows[i] = last.rows[j] => i = j
        /\ \A i \in 1..Len(last.rows) :
            /\ last.rows[i] \in 1..Len(last.patients_df)
            /\ last.returned[i].patient_id = last.patients_df[last.rows[i]].patient_id

\* the statistics of a bundle that are all exactly zero
AllZero(stats) == \A k \in DOMAIN stats : stats[k].num = 0 /\ stats[k].den > 0

\* C12: for a patient of baseline severity 0, any treatment of the table and
\* n >= 1 trials, simulate_treatment_outcome returns a summary, every
\* trial's severity reduction and final severity is 0, and so is every
\* statistic of severity_reduction and of final_severity.
C12_ZeroSeverity ==
    (/\ last.op = "simulate_treatment_outcome"
     /\ last.patient.baseline_severity = 0
     /\ last.patient.treatment \in DOMAIN treatment_params
     /\ last.num_simulations >= 1)
    => /\ sim_status = "returned"
       /\ last.returned.simulations = last.num_simulations
       /\ Len(arrays.final_severity_reduction) = last.num_simulations
       /\ \A i \in 1..last.num_simulations :
            /\ arrays.final_severity_reduction[i] = 0
            /\ arrays.final_severity_scores[i] = 0
       /\ AllZero(last.returned.severity_reduction)
       /\ AllZero(last.returned.final_severity)

C12_Witness ==
    /\ last.op = "simulate_treatment_outcome"
    /\ sim_status = "returned"
    /\ last.patient.baseline_severity = 0
    /\ last.patient.treatment = "Experimental Treatment"
    /\ last.num_simulations = MaxTrials
    /\ AllZero(last.returned.final_severity)

\* the profile's mean efficacy less the three penalties of the last call's
\* patient, in 1e-5: 0.002 per year of age over 50, 0.005 per BMI point
\* over 30, 0.1 per 100 points of severity
PenalisedMean ==
    treatment_params[last.patient.treatment].efficacy_mean
        - (last.patient.age - 50) * 200
        - (IF last.patient.bmi > 3000 THEN (last.patient.bmi - 3000) * 5 ELSE 0)
        - last.patient.baseline_severity

\* C26: expected_efficacy is the profile's mean efficacy minus the age, the
\* obesity and the severity penalty, clamped to [0.2, 0.95], for a patient
\* of any age, BMI and severity; so it lies within [0.2, 0.95].
C26_ExpectedEfficacy ==
    (Simulated /\ sim_status = "returned" /\ last.num_simulations >= 1)
    => /\ last.returned.expected_efficacy =
            (IF PenalisedMean < 20000 THEN 20000
             ELSE IF PenalisedMean > 95000 THEN 95000 ELSE PenalisedMean)
       /\ 20000 <= last.returned.expected_efficacy
       /\ last.returned.expected_efficacy <= 95000

C26_Witness ==
    /\ Simulated /\ sim_status = "returned" /\ last.num_simulations >= 1
    /\ last.patient.bmi > 3000
    /\ PenalisedMean < 20000
    /\ last.returned.expected_efficacy = 20000

\* the fraction x lies in [0, s]
WithinBaseline(x, s) == x.den > 0 /\ 0 <= x.num /\ x.num <= s * x.den

\* C30: for a patient of baseline severity s in [0, 100] every trial's
\* severity reduction lies in [0, s] and its final severity is s minus the
\* reduction, so in [0, s] too; the means of final_severity and of
\* severity_reduction add up to s, and every statistic of final_severity
\* lies in [0, s] (the standard deviation is compared by its square).
C30_SeverityBounds ==
    (/\ Simulated /\ sim_status = "returned" /\ last.num_simulations >= 1
     /\ 0 <= last.patient.baseline_severity
     /\ last.patient.baseline_severity <= 10000)
    => LET s == last.patient.baseline_severity
           final == last.returned.final_severity
           reduction == last.returned.severity_reduction
       IN  /\ \A i \in 1..last.num_simulations :
                /\ 0 <= arrays.final_severity_reduction[i]
                /\ arrays.final_severity_reduction[i] <= s
                /\ arrays.final_severity_scores[i]
                        = s - arrays.final_severity_reduction[i]
                /\ 0 <= arrays.final_severity_scores[i]
                /\ arrays.final_severity_scores[i] <= s
           /\ final.mean.num * reduction.mean.den
                + reduction.mean.num * final.mean.den
                    = s * final.mean.den * reduction.mean.den
           /\ \A k \in (DOMAIN final) \ {"std"} : WithinBaseline(final[k], s)
           /\ final.std.den > 0 /\ 0 <= final.std.num
           /\ final.std.num <= s * s * final.std.den

C30_Witness ==
    /\ Simulated /\ sim_status = "returned"
    /\ last.num_simulations = MaxTrials
    /\ last.patient.baseline_severity > 0
    /\ arrays.final_severity_reduction[1] # arrays.final_severity_reduction[2]
    /\ \A i \in 1..last.num_simulations :
            /\ 0 < arrays.final_severity_reduction[i]
            /\ arrays.final_severity_reduction[i] < last.patient.baseline_severity
    /\ last.returned.final_severity.std.num > 0

\* C13: simulate_treatment_outcome called with a trial count of 0 or a
\* negative trial count fails with InvalidParameterError and returns no
\* summary.
C13_InvalidTrialCount ==
    (/\ last.op = "simulate_treatment_outcome"
     /\ last.patient.treatment \in DOMAIN treatment_params
     /\ last.num_simulations <= 0)
    => sim_status = "InvalidParameterError" /\ last.returned = <<>>

\* C14: simulate_treatment_outcome called on a patient whose treatment is
\* not one of the three profile names fails with UnknownTreatmentError.
C14_UnknownTreatment ==
    (/\ last.op = "simulate_treatment_outcome"
     /\ last.patient.treatment \notin DOMAIN treatment_params)
    => sim_status = "UnknownTreatmentError"

(***************************************************************************)
(* Claims about the analyzer (checked under SpecAnalyzer).                 *)
(***************************************************************************)
AnaReturned(op) == ana_call.op = op /\ ana_status = "returned"

\* the sizes of the treatment groups of the table the last call was given
GroupSizes ==
    {Len(WhereTreatment(ana_call.before.rows, r.treatment)) :
        r \in {ana_call.before.rows[i] : i \in 1..Len(ana_call.before.rows)}}

\* C16: confidence_interval_analysis fails with InsufficientSampleError
\* whenever some treatment group has fewer than 2 rows; it returns interval
\* rows only when every group has at least 2 rows.
C16_InsufficientSample ==
    ana_call.op = "confidence_interval_analysis" =>
        /\ (\E n \in GroupSizes : n < 2) => ana_status = "InsufficientSampleError"
        /\ ana_status = "returned" => \A n \in GroupSizes : n >= 2

\* C17: the rows compare_treatments_analysis returns are sorted by
\* descending mean success probability: each row's Mean_Success_Rate is at
\* least that of the row after it.
C17_SortedDescending ==
    AnaReturned("compare_treatments_analysis") =>
        \A i \in 1..(Len(report) - 1) :
            FracLE(report[i + 1].Mean_Success_Rate, report[i].Mean_Success_Rate)

C17_Witness ==
    /\ AnaReturned("compare_treatments_analysis")
    /\ Len(report) = 3
    /\ report # ComparisonRows(ana_call.before.rows)
    /\ \A i \in 1..2 :
        ~FracLE(report[i].Mean_Success_Rate, report[i + 1].Mean_Success_Rate)

\* the first row of the table handed to the last call that has treatment t
FirstAppearance(t) ==
    CHOOSE k \in 1..Len(ana_call.before.rows) :
        /\ ana_call.before.rows[k].treatment = t
        /\ \A m \in 1..(k - 1) : ana_call.before.rows[m].treatment # t

DeclaredBand(x) ==
    CASE 0 <= x /\ x < 3000 -> "Low"
      [] 3000 <= x /\ x < 5000 -> "Moderate"
      [] 5000 <= x /\ x < 7000 -> "High"
      [] 7000 <= x /\ x <= 10000 -> "Very High"
      [] OTHER -> "NaN"

\* the rows of the table handed to the last call whose severity the declared
\* ranges put in band c
DeclaredRows(c) ==
    {i \in 1..Len(ana_call.before.rows) :
        DeclaredBand(ana_call.before.rows[i].baseline_severity) = c}

\* C18: risk_stratification_analysis places a row of severity s in Low iff
\* 0 <= s < 30, Moderate iff 30 <= s < 50, High iff 50 <= s < 70 and Very
\* High iff 70 <= s <= 100; severities 30, 50 and 70 are counted in
\* Moderate, High and Very High.
C18_BandsLeftClosed ==
    AnaReturned("risk_stratification_analysis") =>
        /\ \A i \in 1..Len(results_df.rows) :
            results_df.rows[i].risk_category =
                DeclaredBand(results_df.rows[i].baseline_severity)
        /\ \A c \in {Labels[i] : i \in 1..Len(Labels)} :
            IF DeclaredRows(c) = {} THEN c \notin DOMAIN report
            ELSE /\ c \in DOMAIN report
                 /\ report[c].n_patients = Cardinality(DeclaredRows(c))

\* n_patients of band c in the returned dictionary, 0 for a band left out
CountedIn(c) == IF c \in DOMAIN report THEN report[c].n_patients ELSE 0

\* C28: on a summaries table whose severities all lie in [0, 100] every row
\* is counted in exactly one band of risk_stratification_analysis: each row
\* (one of severity 0 too) gets one of the four bands, and the n_patients of
\* the returned bands add up to the number of rows.
C28_EveryRowCounted ==
    (/\ AnaReturned("risk_stratification_analysis")
     /\ \A i \in 1..Len(ana_call.before.rows) :
            /\ 0 <= ana_call.before.rows[i].baseline_severity
            /\ ana_call.before.rows[i].baseline_severity <= 10000)
    => /\ \A i \in 1..Len(results_df.rows) :
            results_df.rows[i].risk_category \in DOMAIN report
       /\ CountedIn("Low") + CountedIn("Moderate") + CountedIn("High")
            + CountedIn("Very High") = Len(ana_call.before.rows)

\* x lies in the declared range of band c, for a fraction x
InDeclaredRange(x, c) ==
    CASE c = "Low" -> 0 <= x.num /\ x.num < 3000 * x.den
      [] c = "Moderate" -> 3000 * x.den <= x.num /\ x.num < 5000 * x.den
      [] c = "High" -> 5000 * x.den <= x.num /\ x.num < 7000 * x.den
      [] c = "Very High" -> 7000 * x.den <= x.num /\ x.num <= 10000 * x.den

\* C19: for every band risk_stratification_analysis returns,
\* mean_baseline_severity lies inside the band's declared range: Low in
\* [0,30), Moderate in [30,50), High in [50,70), Very High in [70,100].
C19_MeanInsideBand ==
    AnaReturned("risk_stratification_analysis") =>
        \A c \in DOMAIN report :
            InDeclaredRange(report[c].mean_baseline_severity, c)

\* C20: no analyzer operation modifies the summaries table passed to it:
\* after the call the table has the same columns and the same values.
C20_TableUnchanged ==
    ana_call.op # "none" => results_df = ana_call.before

=============================================================================
